---- MODULE Spec2Model ----
(***************************************************************************)
(* Model of mlx_use/controller/service.py: the Controller, its built-in    *)
(* actions, Controller.act (the dispatcher) and Controller.multi_act (the  *)
(* sequence runner).                                                       *)
(*                                                                         *)
(* Python values are represented as follows.                               *)
(*   str            a sequence of chunks (each chunk a TLA+ string); the   *)
(*                  empty str is << >>; app names are spelled one          *)
(*                  character per chunk so that str.lower() and the        *)
(*                  substring test `a in b` are computed, not assumed.     *)
(*   Optional[x]    None is << >>, a present value v is << v >>.           *)
(*   dict payload   a TLA+ record; the empty dict is the empty function.   *)
(*   a return value a record [type, str, ar] carrying the Python type of   *)
(*                  the value, as isinstance() sees it.                    *)
(***************************************************************************)
EXTENDS Integers, Sequences, FiniteSets, TLC

VARIABLES
    exclude_actions,  \* Controller.exclude_actions
    registry,         \* names registered in self.registry
    element_cache,    \* mac_tree_builder._element_cache: index -> element
    pc,               \* per task: position in multi_act / act / the action
    actions,          \* per task: the `actions` argument of multi_act
    has_builder,      \* per task: whether mac_tree_builder is not None
    i,                \* per task: loop index of multi_act (0-based)
    results,          \* per task: the local list `results` of multi_act
    frame,            \* per task: locals of the running action
    raw,              \* per task: value returned by registry.execute_action
    act_ret,          \* per task: value returned by Controller.act
    exc,              \* per task: the exception in flight, or None
    outcome,          \* per task: what the multi_act call delivered
    log,              \* per task: calls observed by registry and capabilities
    act_log,          \* per task: what each call of act returned
    current           \* the task the event loop is running, 0 when none

vars == <<exclude_actions, registry, element_cache, pc, actions, has_builder,
          i, results, frame, raw, act_ret, exc, outcome, log, act_log, current>>

-----------------------------------------------------------------------------
(* Bounds of the model *)

MaxLen == 2

Tasks == {1, 2}

-----------------------------------------------------------------------------
(* Python values *)

None == << >>

Some(v) == << v >>

IsNone(o) == o = << >>

\* bool(o) for an Optional[str]: None and "" are both falsy
Truthy(o) == (~IsNone(o)) /\ Len(o[1]) > 0

Digits == <<"0", "1", "2", "3", "4", "5", "6", "7", "8", "9">>

\* str(n) as an f-string renders an int
IntToStr(n) == <<Digits[n + 1]>>

LowerChar(c) ==
    CASE c = "A" -> "a"
      [] c = "B" -> "b"
      [] c = "C" -> "c"
      [] OTHER -> c

\* str.lower()
Lower(s) == [k \in 1..Len(s) |-> LowerChar(s[k])]

\* the substring test `needle in hay`
Contains(needle, hay) ==
    \E k \in 0..(Len(hay) - Len(needle)) :
        SubSeq(hay, k + 1, k + Len(needle)) = needle

\* ActionResult(extracted_content=..., error=..., is_done=..., current_app_pid=...)
ActionResult(ec, err, done, pid) ==
    [extracted_content |-> ec, error |-> err, is_done |-> done,
     current_app_pid |-> pid]

\* ActionResult()
EmptyResult == ActionResult(None, None, FALSE, None)

\* values an action implementation can hand back, tagged with their type
PyResult(ar) == [type |-> "ActionResult", str |-> << >>, ar |-> ar]

PyStr(s) == [type |-> "str", str |-> s, ar |-> EmptyResult]

PyNone == [type |-> "NoneType", str |-> << >>, ar |-> EmptyResult]

PyInt == [type |-> "int", str |-> << >>, ar |-> EmptyResult]

-----------------------------------------------------------------------------
(* The Controller and its registry *)

\* the actions registered by _register_default_actions, in source order
DefaultActions ==
    <<"done", "input_text", "click_element", "open_app", "list_running_apps">>

\* the name under which a caller registers an action of its own through
\* Controller.action
CustomAction == "custom_action"

\* self.registry.action(...): a name in exclude_actions is not registered
Register(reg, name, excluded) ==
    IF name \in excluded THEN reg ELSE reg \cup {name}

RECURSIVE RegisterAll(_, _, _)
RegisterAll(reg, names, excluded) ==
    IF names = << >> THEN reg
    ELSE RegisterAll(Register(reg, Head(names), excluded), Tail(names), excluded)

\* faulty variant: the registry is built without the exclusion list
NewRegistryNoExclude(excluded) == RegisterAll({}, DefaultActions, {})

\* Controller.__init__
NewRegistry(excluded) == RegisterAll({}, DefaultActions, excluded)

\* the parameters of each action implementation, less the injected builder
ParamFields(name) ==
    CASE name = "done" -> {"text"}
      [] name = "input_text" -> {"index", "text", "submit"}
      [] name = "click_element" -> {"index"}
      [] name = "open_app" -> {"app_name"}
      [] OTHER -> {}

\* requires_mac_builder=True in the registration
RequiresBuilder(name) == name \in {"input_text", "click_element"}

\* param_model(**params): the payload has exactly the declared fields
ValidParams(name, params) == DOMAIN params = ParamFields(name)

\* the exception registry.execute_action raises before invoking, or None
ExecuteError(reg, name, params, builder) ==
    IF name \notin reg THEN Some("UnknownActionError")
    ELSE IF ~ValidParams(name, params) THEN Some("InvalidParametersError")
    ELSE IF RequiresBuilder(name) /\ ~builder THEN Some("MissingContextError")
    ELSE None

-----------------------------------------------------------------------------
(* Results of the built-in actions *)

\* faulty variant: done forgets is_done
DoneResultNotDone(text) == ActionResult(Some(text), None, FALSE, None)

\* done: ActionResult(extracted_content=text, is_done=True)
DoneResult(text) == ActionResult(Some(text), None, TRUE, None)

\* input_text: the value returned on every path
InputTextResult(index) ==
    ActionResult(Some(<<"input text into element with index ">> \o IntToStr(index)),
                 None, FALSE, None)

\* click_element: the value returned on every path
ClickElementResult(index) ==
    ActionResult(Some(<<"clicked element with index ">> \o IntToStr(index)),
                 None, FALSE, None)

\* open_app: both launch attempts failed
LaunchFailedMsg(app_name) ==
    <<"Failed to launch app: ">> \o app_name \o <<" (and lowercased: ">>
        \o Lower(app_name) \o <<")">>

\* faulty variant: the failure is reported in extracted_content only
LaunchFailedNoError(app_name) ==
    ActionResult(Some(LaunchFailedMsg(app_name)), None, FALSE, None)

LaunchFailedResult(app_name) ==
    ActionResult(Some(LaunchFailedMsg(app_name)), Some(LaunchFailedMsg(app_name)),
                 FALSE, None)

\* open_app: `if not success` after the two attempts
NotSuccessResult(app_name) ==
    ActionResult(Some(<<"Failed to open app ">> \o app_name), None, FALSE, None)

\* open_app: the first running application whose bundle identifier contains
\* the lower-cased app name; 0 when there is none
Matches(app, app_name) ==
    Truthy(app.bundleIdentifier)
        /\ Contains(Lower(app_name), Lower(app.bundleIdentifier[1]))

\* faulty variant: the loop over the running applications has no break, the
\* last match wins
FirstMatchNoBreak(running, app_name) ==
    LET hits == {k \in 1..Len(running) : Matches(running[k], app_name)}
    IN  IF hits = {} THEN 0 ELSE CHOOSE k \in hits : \A m \in hits : k >= m

FirstMatch(running, app_name) ==
    LET hits == {k \in 1..Len(running) : Matches(running[k], app_name)}
    IN  IF hits = {} THEN 0 ELSE CHOOSE k \in hits : \A m \in hits : k <= m

FindPid(running, app_name) ==
    IF FirstMatch(running, app_name) = 0 THEN None
    ELSE Some(running[FirstMatch(running, app_name)].processIdentifier)

NotFoundMsg(app_name) ==
    <<"Could not find running app with name: ">> \o app_name
        \o <<" in running applications.">>

\* faulty variant: a poll without a match ends the task with is_done
PollResultDone(app_name, pid) ==
    IF IsNone(pid)
    THEN ActionResult(Some(NotFoundMsg(app_name)), Some(NotFoundMsg(app_name)),
                      TRUE, None)
    ELSE ActionResult(Some(<<"We opened the app ">> \o app_name), None, FALSE, pid)

\* open_app: the value returned after the poll
PollResult(app_name, pid) ==
    IF IsNone(pid)
    THEN ActionResult(Some(NotFoundMsg(app_name)), Some(NotFoundMsg(app_name)),
                      FALSE, None)
    ELSE ActionResult(Some(<<"We opened the app ">> \o app_name), None, FALSE, pid)

\* list_running_apps: one line per application, joined by newlines
AppLine(app) ==
    app.localizedName \o <<" => ">>
        \o (IF IsNone(app.bundleIdentifier) THEN <<"None">> ELSE app.bundleIdentifier[1])
        \o <<" => Path: ">>
        \o (IF IsNone(app.bundleURL) THEN <<"Path not available">> ELSE app.bundleURL[1])

RECURSIVE JoinLines(_)
JoinLines(running) ==
    IF running = << >> THEN << >>
    ELSE IF Len(running) = 1 THEN AppLine(running[1])
    ELSE AppLine(Head(running)) \o <<"\n">> \o JoinLines(Tail(running))

ListResult(running) == ActionResult(Some(JoinLines(running)), None, FALSE, None)

-----------------------------------------------------------------------------
(* Controller.act and Controller.multi_act: the decisions *)

\* faulty variant: the scan goes on and the last populated entry wins
LastPopulated(dump) ==
    LET set == {k \in 1..Len(dump) : ~IsNone(dump[k].params)}
    IN  IF set = {} THEN 0 ELSE CHOOSE k \in set : \A m \in set : k >= m

\* model_dump(exclude_unset=True).items(): the position of the first entry
\* whose params is not None; 0 when there is none
FirstPopulated(dump) ==
    LET set == {k \in 1..Len(dump) : ~IsNone(dump[k].params)}
    IN  IF set = {} THEN 0 ELSE CHOOSE k \in set : \A m \in set : k <= m

\* the isinstance chain of act accepts the value
NormalizeOk(r) == r.type \in {"str", "ActionResult", "NoneType"}

\* faulty variant: the text of a str return value is dropped
NormalizeDropsStr(r) ==
    CASE r.type = "ActionResult" -> r.ar
      [] OTHER -> EmptyResult

\* the ActionResult act returns for an accepted value
Normalize(r) ==
    CASE r.type = "str" -> ActionResult(Some(r.str), None, FALSE, None)
      [] r.type = "ActionResult" -> r.ar
      [] OTHER -> EmptyResult

\* faulty variant: the break test forgets is_done
ShouldBreakNoDone(last, idx, n) ==
    Truthy(last.error) \/ idx = n - 1

\* faulty variant: the break test takes the last index to be len(actions) - 2
ShouldBreakOffByOne(last, idx, n) ==
    last.is_done \/ Truthy(last.error) \/ idx = n - 2

\* results[-1].is_done or results[-1].error or i == len(actions) - 1
ShouldBreak(last, idx, n) ==
    last.is_done \/ Truthy(last.error) \/ idx = n - 1

-----------------------------------------------------------------------------
(* Inputs: requests, the element cache, capability outcomes *)

Entry(name, params) == [name |-> name, params |-> params]

NoParams == [f \in {} |-> f]

\* ActionModel instances, as model_dump(exclude_unset=True).items() lists them
Requests ==
    { << >>,
      <<Entry("click_element", None)>>,
      <<Entry("done", Some([text |-> <<"ok">>]))>>,
      <<Entry("done", Some([text |-> << >>]))>>,
      <<Entry("click_element", Some([index |-> 0]))>>,
      <<Entry("click_element", Some([index |-> 2]))>>,
      <<Entry("click_element", Some([text |-> <<"x">>]))>>,
      <<Entry("input_text", Some([index |-> 0, text |-> <<"x">>, submit |-> TRUE]))>>,
      <<Entry("input_text", Some([index |-> 2, text |-> <<"x">>, submit |-> FALSE]))>>,
      <<Entry("open_app", Some([app_name |-> <<"A", "b">>]))>>,
      <<Entry("list_running_apps", Some(NoParams))>>,
      <<Entry(CustomAction, Some(NoParams))>>,
      <<Entry("no_such_action", Some(NoParams))>>,
      <<Entry("click_element", None), Entry("done", Some([text |-> <<"ok">>]))>>,
      <<Entry("click_element", Some([index |-> 0])),
        Entry("done", Some([text |-> <<"ok">>]))>> }

RECURSIVE ListsUpTo(_)
ListsUpTo(n) ==
    IF n = 0 THEN {<< >>}
    ELSE ListsUpTo(n - 1)
            \cup {Append(l, r) : l \in {m \in ListsUpTo(n - 1) : Len(m) = n - 1},
                                 r \in Requests}

ActionLists == ListsUpTo(MaxLen)

\* exclude_actions arguments of the constructor
ExcludeChoices == { {}, {"list_running_apps"} }

\* mac_tree_builder._element_cache
ElementCache == [k \in {0, 1} |-> <<"element", Digits[k + 1]>>]

\* what click / type_into / launchApplication_ can do: return a bool or raise
CallOutcomes == {"true", "false", "ValueError", "Exception"}

RunningApp(name, bundle, pid, url) ==
    [localizedName |-> name, bundleIdentifier |-> bundle,
     processIdentifier |-> pid, bundleURL |-> url]

\* values of workspace.runningApplications()
RunningLists ==
    { << >>,
      <<RunningApp(<<"X">>, None, 100, None),
        RunningApp(<<"A", "b">>, Some(<<"c", ".", "A", "b">>), 101,
                   Some(<<"/", "A", "b">>)),
        RunningApp(<<"a", "b", "2">>, Some(<<"c", ".", "a", "b", "2">>), 102, None)>>,
      <<RunningApp(<<"B", "a">>, Some(<<"c", ".", "B", "a">>), 103, None)>> }

\* values an action registered through Controller.action can return
CustomReturns ==
    { PyStr(<<"text">>), PyNone, PyInt,
      PyResult(EmptyResult),
      PyResult(ActionResult(Some(<<"fin">>), None, TRUE, None)),
      PyResult(ActionResult(None, Some(<< >>), FALSE, None)),
      PyResult(ActionResult(None, Some(<<"boom">>), FALSE, None)),
      PyResult(ActionResult(None, Some(<<"boom">>), TRUE, None)) }

\* a call: what was called, for which position of the list, with which
\* argument, and how the call ended
Event(op, pos, arg, out) == [op |-> op, pos |-> pos, arg |-> arg, out |-> out]

NoFrame == [action_name |-> "", params |-> NoParams, success |-> FALSE,
            running |-> << >>]

Pending == [kind |-> "pending", value |-> None, exc |-> None]

-----------------------------------------------------------------------------
(* The state machine *)

Init ==
    /\ exclude_actions \in ExcludeChoices
    /\ registry = NewRegistry(exclude_actions)
    /\ element_cache = ElementCache
    /\ pc = [t \in Tasks |-> "idle"]
    /\ actions = [t \in Tasks |-> << >>]
    /\ has_builder = [t \in Tasks |-> FALSE]
    /\ i = [t \in Tasks |-> 0]
    /\ results = [t \in Tasks |-> << >>]
    /\ frame = [t \in Tasks |-> NoFrame]
    /\ raw = [t \in Tasks |-> PyNone]
    /\ act_ret = [t \in Tasks |-> EmptyResult]
    /\ exc = [t \in Tasks |-> None]
    /\ outcome = [t \in Tasks |-> Pending]
    /\ log = [t \in Tasks |-> << >>]
    /\ act_log = [t \in Tasks |-> << >>]
    /\ current = 0

controller_vars == <<exclude_actions, registry, element_cache>>

Goto(t, label) == pc' = [pc EXCEPT ![t] = label]

Logged(t, e) == log' = [log EXCEPT ![t] = Append(@, e)]

\* act returns `result` for the request at position i
ActReturns(t, result) ==
    /\ act_ret' = [act_ret EXCEPT ![t] = result]
    /\ act_log' = [act_log EXCEPT ![t] = Append(@, [pos |-> i[t], result |-> result])]
    /\ Goto(t, "append")

\* the request multi_act is working on
Request(t) == actions[t][i[t] + 1]

\* Controller.action: a caller registers an action of its own
ControllerAction ==
    /\ CustomAction \notin registry
    /\ registry' = Register(registry, CustomAction, exclude_actions)
    /\ UNCHANGED <<exclude_actions, element_cache, pc, actions, has_builder, i,
                   results, frame, raw, act_ret, exc, outcome, log, act_log,
                   current>>

\* multi_act is called with one of `lists`: results = []
Call(t, lists) ==
    /\ pc[t] = "idle"
    /\ current = 0
    /\ \E acts \in lists, builder \in BOOLEAN :
          /\ actions' = [actions EXCEPT ![t] = acts]
          /\ has_builder' = [has_builder EXCEPT ![t] = builder]
    /\ results' = [results EXCEPT ![t] = << >>]
    /\ i' = [i EXCEPT ![t] = 0]
    /\ current' = t
    /\ Goto(t, "for")
    /\ UNCHANGED <<controller_vars, frame, raw, act_ret, exc, outcome, log, act_log>>

\* a caller awaits multi_act
MultiAct(t) == Call(t, ActionLists)

\* faulty variant: act is started for the request but not awaited, the loop goes
\* on to the next request at once
MultiActForNoAwait(t) ==
    /\ pc[t] = "for"
    /\ current = t
    /\ IF i[t] < Len(actions[t])
       THEN /\ Logged(t, Event("act", i[t], << >>, ""))
            /\ i' = [i EXCEPT ![t] = @ + 1]
            /\ UNCHANGED pc
       ELSE /\ Goto(t, "return")
            /\ UNCHANGED <<log, i>>
    /\ UNCHANGED <<controller_vars, actions, has_builder, results, frame, raw,
                   act_ret, exc, outcome, act_log, current>>

\* for i, action in enumerate(actions): the next request is handed to act
MultiActFor(t) ==
    /\ pc[t] = "for"
    /\ current = t
    /\ IF i[t] < Len(actions[t])
       THEN /\ Logged(t, Event("act", i[t], << >>, ""))
            /\ Goto(t, "act")
       ELSE /\ Goto(t, "return")
            /\ UNCHANGED log
    /\ UNCHANGED <<controller_vars, actions, has_builder, i, results, frame, raw,
                   act_ret, exc, outcome, act_log, current>>

\* faulty variant: a request without a populated entry is reported as an error
ActNoOpError == ActionResult(None, Some(<<"no action">>), FALSE, None)

\* the ActionResult act returns when no entry is populated
ActNoOp == EmptyResult

\* act: scan the entries for the first one whose params is not None
Act(t) ==
    /\ pc[t] = "act"
    /\ current = t
    /\ LET k == FirstPopulated(Request(t))
       IN  IF k = 0
           THEN /\ ActReturns(t, ActNoOp)
                /\ UNCHANGED frame
           ELSE /\ frame' = [frame EXCEPT ![t] =
                                [action_name |-> Request(t)[k].name,
                                 params |-> Request(t)[k].params[1],
                                 success |-> FALSE,
                                 running |-> << >>]]
                /\ Goto(t, "execute")
                /\ UNCHANGED <<act_ret, act_log>>
    /\ UNCHANGED <<controller_vars, actions, has_builder, i, results, raw, exc,
                   outcome, log, current>>

\* registry.execute_action: look up, validate, inject the builder, invoke
ExecuteAction(t) ==
    /\ pc[t] = "execute"
    /\ current = t
    /\ LET e == ExecuteError(registry, frame[t].action_name, frame[t].params,
                             has_builder[t])
       IN  IF IsNone(e)
           THEN /\ Logged(t, Event("execute_action", i[t],
                                   <<frame[t].action_name>>, "invoked"))
                /\ Goto(t, frame[t].action_name)
                /\ UNCHANGED exc
           ELSE /\ Logged(t, Event("execute_action", i[t],
                                   <<frame[t].action_name>>, e[1]))
                /\ exc' = [exc EXCEPT ![t] = e]
                /\ Goto(t, "except")
    /\ UNCHANGED <<controller_vars, actions, has_builder, i, results, frame, raw,
                   act_ret, outcome, act_log, current>>

Returns(t, value) ==
    /\ raw' = [raw EXCEPT ![t] = value]
    /\ Goto(t, "normalize")
    /\ UNCHANGED exc

Raises(t, e) ==
    /\ exc' = [exc EXCEPT ![t] = Some(e)]
    /\ Goto(t, "except")
    /\ UNCHANGED raw

\* done
Done(t) ==
    /\ pc[t] = "done"
    /\ current = t
    /\ Returns(t, PyResult(DoneResult(frame[t].params.text)))
    /\ UNCHANGED <<controller_vars, actions, has_builder, i, results, frame,
                   act_ret, outcome, log, act_log, current>>

\* what the try block of input_text / click_element prints on each path
Printed(path) ==
    CASE path = "absent" -> "Invalid index."
      [] path = "true" -> "successful!"
      [] path = "false" -> "failed."
      [] path = "ValueError" -> "Invalid input. Please enter a number or 'q'."
      [] OTHER -> "An error occurred"

\* input_text
InputText(t) ==
    /\ pc[t] = "input_text"
    /\ current = t
    /\ LET index == frame[t].params.index
           pos == i[t]
       IN  /\ IF index \in DOMAIN element_cache
              THEN \E o \in CallOutcomes :
                      log' = [log EXCEPT ![t] = @ \o
                                <<Event("type_into", pos, element_cache[index], o),
                                  Event("print", pos, <<Printed(o)>>, "")>>]
              ELSE Logged(t, Event("print", pos, <<Printed("absent")>>, ""))
           /\ Returns(t, PyResult(InputTextResult(index)))
    /\ UNCHANGED <<controller_vars, actions, has_builder, i, results, frame,
                   act_ret, outcome, act_log, current>>

\* faulty variant: click_element takes the element out of the cache
ClickElementPop(t) ==
    /\ pc[t] = "click_element"
    /\ current = t
    /\ LET index == frame[t].params.index
           pos == i[t]
       IN  /\ IF index \in DOMAIN element_cache
              THEN /\ \E o \in CallOutcomes :
                         log' = [log EXCEPT ![t] = @ \o
                                   <<Event("click", pos, element_cache[index], o),
                                     Event("print", pos, <<Printed(o)>>, "")>>]
                   /\ element_cache' = [k \in DOMAIN element_cache \ {index}
                                          |-> element_cache[k]]
              ELSE /\ Logged(t, Event("print", pos, <<Printed("absent")>>, ""))
                   /\ UNCHANGED element_cache
           /\ Returns(t, PyResult(ClickElementResult(index)))
    /\ UNCHANGED <<exclude_actions, registry, actions, has_builder, i, results,
                   frame, act_ret, outcome, act_log, current>>

\* click_element
ClickElement(t) ==
    /\ pc[t] = "click_element"
    /\ current = t
    /\ LET index == frame[t].params.index
           pos == i[t]
       IN  /\ IF index \in DOMAIN element_cache
              THEN \E o \in CallOutcomes :
                      log' = [log EXCEPT ![t] = @ \o
                                <<Event("click", pos, element_cache[index], o),
                                  Event("print", pos, <<Printed(o)>>, "")>>]
              ELSE Logged(t, Event("print", pos, <<Printed("absent")>>, ""))
           /\ Returns(t, PyResult(ClickElementResult(index)))
    /\ UNCHANGED <<controller_vars, actions, has_builder, i, results, frame,
                   act_ret, outcome, act_log, current>>

\* open_app: workspace.launchApplication_(app_name)
OpenApp(t) ==
    /\ pc[t] = "open_app"
    /\ current = t
    /\ \E o \in CallOutcomes :
          /\ Logged(t, Event("launchApplication_", i[t], frame[t].params.app_name, o))
          /\ CASE o = "true" ->
                  /\ frame' = [frame EXCEPT ![t].success = TRUE]
                  /\ Goto(t, "open_app_launched")
                  /\ UNCHANGED <<raw, exc>>
            [] o = "false" ->
                  /\ frame' = [frame EXCEPT ![t].success = FALSE]
                  /\ Goto(t, "open_app_lower")
                  /\ UNCHANGED <<raw, exc>>
            [] OTHER ->
                  /\ Raises(t, o)
                  /\ UNCHANGED frame
    /\ UNCHANGED <<controller_vars, actions, has_builder, i, results, act_ret,
                   outcome, act_log, current>>

\* open_app: workspace.launchApplication_(app_name.lower())
OpenAppLower(t) ==
    /\ pc[t] = "open_app_lower"
    /\ current = t
    /\ \E o \in CallOutcomes :
          /\ Logged(t, Event("launchApplication_", i[t],
                             Lower(frame[t].params.app_name), o))
          /\ CASE o = "true" ->
                  /\ frame' = [frame EXCEPT ![t].success = TRUE]
                  /\ Goto(t, "open_app_launched")
                  /\ UNCHANGED <<raw, exc>>
            [] o = "false" ->
                  /\ Returns(t, PyResult(LaunchFailedResult(frame[t].params.app_name)))
                  /\ UNCHANGED frame
            [] OTHER ->
                  /\ Raises(t, o)
                  /\ UNCHANGED frame
    /\ UNCHANGED <<controller_vars, actions, has_builder, i, results, act_ret,
                   outcome, act_log, current>>

\* open_app: `if not success`, then await asyncio.sleep(1); the task is
\* suspended and the event loop is free until the sleep ends
OpenAppSleep(t) ==
    /\ pc[t] = "open_app_launched"
    /\ current = t
    /\ IF ~frame[t].success
       THEN /\ Returns(t, PyResult(NotSuccessResult(frame[t].params.app_name)))
            /\ UNCHANGED <<log, current>>
       ELSE /\ Logged(t, Event("sleep", i[t], << >>, ""))
            /\ Goto(t, "open_app_sleeping")
            /\ current' = 0
            /\ UNCHANGED <<raw, exc>>
    /\ UNCHANGED <<controller_vars, actions, has_builder, i, results, frame,
                   act_ret, outcome, act_log>>

\* open_app: the sleep is over; workspace.runningApplications() is searched
OpenAppPoll(t) ==
    /\ pc[t] = "open_app_sleeping"
    /\ current = 0
    /\ current' = t
    /\ \/ /\ Logged(t, Event("runningApplications", i[t], << >>, "returned"))
          /\ \E running \in RunningLists :
                /\ frame' = [frame EXCEPT ![t].running = running]
                /\ Returns(t, PyResult(PollResult(frame[t].params.app_name,
                                                  FindPid(running,
                                                          frame[t].params.app_name))))
       \/ /\ Logged(t, Event("runningApplications", i[t], << >>, "Exception"))
          /\ Raises(t, "Exception")
          /\ UNCHANGED frame
    /\ UNCHANGED <<controller_vars, actions, has_builder, i, results,
                   act_ret, outcome, act_log>>

\* list_running_apps
ListRunningApps(t) ==
    /\ pc[t] = "list_running_apps"
    /\ current = t
    /\ \/ /\ Logged(t, Event("runningApplications", i[t], << >>, "returned"))
          /\ \E running \in RunningLists : Returns(t, PyResult(ListResult(running)))
       \/ /\ Logged(t, Event("runningApplications", i[t], << >>, "Exception"))
          /\ Raises(t, "Exception")
    /\ UNCHANGED <<controller_vars, actions, has_builder, i, results, frame,
                   act_ret, outcome, act_log, current>>

\* an action registered through Controller.action runs
RunCustomAction(t) ==
    /\ pc[t] = CustomAction
    /\ current = t
    /\ \/ \E r \in CustomReturns : Returns(t, r)
       \/ Raises(t, "Exception")
    /\ UNCHANGED <<controller_vars, actions, has_builder, i, results, frame,
                   act_ret, outcome, log, act_log, current>>

\* act: the isinstance chain over the value execute_action returned
ActNormalize(t) ==
    /\ pc[t] = "normalize"
    /\ current = t
    /\ IF NormalizeOk(raw[t])
       THEN /\ ActReturns(t, Normalize(raw[t]))
            /\ UNCHANGED exc
       ELSE /\ exc' = [exc EXCEPT ![t] = Some("ValueError")]
            /\ Goto(t, "except")
            /\ UNCHANGED <<act_ret, act_log>>
    /\ UNCHANGED <<controller_vars, actions, has_builder, i, results, frame, raw,
                   outcome, log, current>>

\* what the caller of multi_act gets when act raises
Raised(res, e) == [kind |-> "raised", value |-> None, exc |-> e]

\* faulty variant: the last result is left out of the returned list
ReturnedButLast(res) ==
    [kind |-> "returned",
     value |-> Some(SubSeq(res, 1, Len(res) - 1)),
     exc |-> None]

\* what the caller of multi_act gets from `return results`
Returned(res) == [kind |-> "returned", value |-> Some(res), exc |-> None]

\* faulty variant: act swallows the exception and returns it as an error
ActRaiseSwallowed(t) ==
    /\ pc[t] = "except"
    /\ current = t
    /\ ActReturns(t, ActionResult(None, Some(exc[t]), FALSE, None))
    /\ UNCHANGED <<controller_vars, actions, has_builder, i, results, frame, raw,
                   exc, outcome, log, current>>

\* act: `except Exception as e: raise e`; nothing in multi_act catches it
ActRaise(t) ==
    /\ pc[t] = "except"
    /\ current = t
    /\ outcome' = [outcome EXCEPT ![t] = Raised(results[t], exc[t])]
    /\ current' = 0
    /\ Goto(t, "raised")
    /\ UNCHANGED <<controller_vars, actions, has_builder, i, results, frame, raw,
                   act_ret, exc, log, act_log>>

\* multi_act: results.append(await self.act(...)), then the break test
MultiActAppend(t) ==
    /\ pc[t] = "append"
    /\ current = t
    /\ results' = [results EXCEPT ![t] = Append(@, act_ret[t])]
    /\ IF ShouldBreak(act_ret[t], i[t], Len(actions[t]))
       THEN /\ Goto(t, "return")
            /\ UNCHANGED i
       ELSE /\ i' = [i EXCEPT ![t] = @ + 1]
            /\ Goto(t, "for")
    /\ UNCHANGED <<controller_vars, actions, has_builder, frame, raw, act_ret, exc,
                   outcome, log, act_log, current>>

\* multi_act: return results
MultiActReturn(t) ==
    /\ pc[t] = "return"
    /\ current = t
    /\ outcome' = [outcome EXCEPT ![t] = Returned(results[t])]
    /\ current' = 0
    /\ Goto(t, "returned")
    /\ UNCHANGED <<controller_vars, actions, has_builder, i, results, frame, raw,
                   act_ret, exc, log, act_log>>

\* one step of a multi_act call that has begun
Run(t) ==
    \/ MultiActFor(t)
    \/ Act(t)
    \/ ExecuteAction(t)
    \/ Done(t)
    \/ InputText(t)
    \/ ClickElement(t)
    \/ OpenApp(t)
    \/ OpenAppLower(t)
    \/ OpenAppSleep(t)
    \/ OpenAppPoll(t)
    \/ ListRunningApps(t)
    \/ RunCustomAction(t)
    \/ ActNormalize(t)
    \/ ActRaise(t)
    \/ MultiActAppend(t)
    \/ MultiActReturn(t)

Step(t) == MultiAct(t) \/ Run(t)

\* one caller of multi_act; the steps are written per task so that callers
\* sharing the event loop can be composed from the same actions
Next == ControllerAction \/ Step(1)

Spec == Init /\ [][Next]_vars

\* the lists two concurrent callers pass: at most one request each
ConcurrentLists == {l \in ActionLists : Len(l) <= 1}

\* a caller starts multi_act as one of several tasks on the event loop
MultiActTask(t) == Call(t, ConcurrentLists)

\* two callers started as tasks on one event loop (asyncio.gather of two
\* multi_act coroutines): a task runs until it ends or suspends in
\* asyncio.sleep, then the loop runs whichever task is ready
NextConcurrent == ControllerAction \/ \E t \in Tasks : (MultiActTask(t) \/ Run(t))

SpecConcurrent == Init /\ [][NextConcurrent]_vars

\* the event loop keeps running ready tasks
FairSpec == Spec /\ WF_vars(Step(1))

-----------------------------------------------------------------------------
(* Vocabulary of the properties *)

\* a terminal result: is_done = true or a non-null error
Terminal(r) == r.is_done \/ ~IsNone(r.error)

\* <<0, 1, ..., n-1>>
Positions(n) == [k \in 1..n |-> k - 1]

\* the positions of the requests handed to act so far, in the order handed
Dispatched(t) ==
    LET acts == SelectSeq(log[t], LAMBDA e : e.op = "act")
    IN  [k \in 1..Len(acts) |-> acts[k].pos]

\* the calls of `op` made while the request at `pos` was being executed
Calls(t, op, pos) == SelectSeq(log[t], LAMBDA e : e.op = op /\ e.pos = pos)

\* multi_act has ended and handed the list `value` to its caller
ReturnedList(t, value) ==
    /\ pc[t] = "returned"
    /\ outcome[t].kind = "returned"
    /\ outcome[t].value = Some(value)

-----------------------------------------------------------------------------
(* C1: if k is the smallest position whose result has is_done = true and no
   earlier result is terminal, then exactly the requests at positions 0..k
   are dispatched, none after k ever is, and the returned list has exactly
   k+1 results. *)
C1_StopsAtDone ==
    \A t \in Tasks : \A k \in 1..Len(results[t]) :
        (/\ results[t][k].is_done
         /\ \A j \in 1..(k - 1) : ~Terminal(results[t][j]))
        => /\ Dispatched(t) = Positions(k)
           /\ Len(results[t]) = k
           /\ pc[t] \in {"return", "returned"}
           /\ pc[t] = "returned" => ReturnedList(t, results[t])

\* a done result at position 0 of a two-request list has been returned
C1_Witness ==
    /\ Len(actions[1]) = 2
    /\ ReturnedList(1, results[1])
    /\ Len(results[1]) = 1
    /\ results[1][1].is_done
    /\ Dispatched(1) = <<0>>

-----------------------------------------------------------------------------
(* C2: as soon as a result has a non-null error (any non-null value,
   including an empty string), no further request is dispatched and the
   returned list ends with that result. *)
C2_StopsAtAnyError ==
    \A t \in Tasks : \A k \in 1..Len(results[t]) :
        ~IsNone(results[t][k].error)
        => /\ Dispatched(t) = Positions(k)
           /\ Len(results[t]) = k
           /\ pc[t] \in {"return", "returned"}
           /\ pc[t] = "returned" => ReturnedList(t, results[t])

-----------------------------------------------------------------------------
(* C3: when no result is terminal, multi_act dispatches every request
   exactly once in list order and returns a list as long as the input in
   which result i is what act returned for request i; the empty list yields
   the empty list. *)
C3_AllDispatched ==
    \A t \in Tasks :
        (/\ pc[t] = "returned"
         /\ \A k \in 1..Len(results[t]) : ~Terminal(results[t][k]))
        => /\ ReturnedList(t, results[t])
           /\ Len(results[t]) = Len(actions[t])
           /\ Dispatched(t) = Positions(Len(actions[t]))
           /\ Len(act_log[t]) = Len(results[t])
           /\ \A k \in 1..Len(results[t]) :
                 act_log[t][k] = [pos |-> k - 1, result |-> results[t][k]]

\* two non-terminal requests were both dispatched and both results returned
C3_Witness ==
    /\ Len(actions[1]) = 2
    /\ ReturnedList(1, results[1])
    /\ Len(results[1]) = 2
    /\ \A k \in 1..2 : ~Terminal(results[1][k])
    /\ Dispatched(1) = <<0, 1>>

-----------------------------------------------------------------------------
\* every entry the request lists has params None (or it lists none)
NoPopulatedEntry(req) == \A k \in 1..Len(req) : IsNone(req[k].params)

(* C4: act on a request with zero populated entries (no field set, or every
   set field None) returns an empty ActionResult, raises nothing and never
   calls registry.execute_action. *)
C4_EmptyRequestIsNoOp ==
    \A t \in Tasks : \A p \in 0..(Len(actions[t]) - 1) :
        NoPopulatedEntry(actions[t][p + 1])
        => /\ Calls(t, "execute_action", p) = << >>
           /\ i[t] = p => pc[t] \in {"for", "act", "append", "return", "returned"}
           /\ i[t] = p => IsNone(exc[t])
           /\ \A k \in 1..Len(act_log[t]) :
                 act_log[t][k].pos = p => act_log[t][k].result = EmptyResult

\* act has just returned for a request whose only entry is None
C4_Witness ==
    /\ pc[1] = "append"
    /\ Len(Request(1)) > 0
    /\ NoPopulatedEntry(Request(1))
    /\ act_ret[1] = EmptyResult
    /\ Calls(1, "execute_action", i[1]) = << >>

-----------------------------------------------------------------------------
\* the text names the invalid index the way the action itself words it
IndicatesInvalidIndex(ec) ==
    /\ ~IsNone(ec)
    /\ \E k \in 1..Len(ec[1]) : ec[1][k] = Printed("absent")

(* C5: click_element (and input_text) called with an index absent from the
   element cache raises no exception, never calls the click / type
   capability, and returns an ActionResult whose extracted_content
   indicates that the index is invalid. *)
C5_InvalidIndexReported ==
    \A t \in Tasks :
        (/\ pc[t] = "normalize"
         /\ frame[t].action_name \in {"click_element", "input_text"}
         /\ frame[t].params.index \notin DOMAIN element_cache)
        => /\ Calls(t, "click", i[t]) = << >>
           /\ Calls(t, "type_into", i[t]) = << >>
           /\ raw[t].type = "ActionResult"
           /\ IndicatesInvalidIndex(raw[t].ar.extracted_content)

-----------------------------------------------------------------------------
\* how the launch attempts made for the request at position p ended
LaunchOutcomes(t, p) ==
    [k \in 1..Len(Calls(t, "launchApplication_", p)) |->
        Calls(t, "launchApplication_", p)[k].out]

BothLaunchesFailed(t, p) == LaunchOutcomes(t, p) = <<"false", "false">>

(* C6: open_app whose verbatim launch attempt fails and whose lower-cased
   launch attempt also fails returns an ActionResult with error set, and
   the post-launch delay and the running-process poll are never reached. *)
C6_LaunchFailure ==
    \A t \in Tasks : \A p \in 0..(Len(actions[t]) - 1) :
        BothLaunchesFailed(t, p)
        => /\ Calls(t, "launchApplication_", p)[2].arg
                 = Lower(Calls(t, "launchApplication_", p)[1].arg)
           /\ Calls(t, "sleep", p) = << >>
           /\ Calls(t, "runningApplications", p) = << >>
           /\ i[t] = p => pc[t] \in {"normalize", "append", "for", "return", "returned"}
           /\ (i[t] = p /\ pc[t] = "normalize")
                 => (raw[t].type = "ActionResult" /\ ~IsNone(raw[t].ar.error))
           /\ \A k \in 1..Len(act_log[t]) :
                 act_log[t][k].pos = p
                 => (~IsNone(act_log[t][k].result.error)
                     /\ ~act_log[t][k].result.is_done)

\* both launch attempts of the first request failed and its result is in
\* the list
C6_Witness ==
    /\ BothLaunchesFailed(1, 0)
    /\ Len(results[1]) = 1
    /\ ~IsNone(results[1][1].error)
    /\ Calls(1, "launchApplication_", 0)[1].arg # Calls(1, "launchApplication_", 0)[2].arg

-----------------------------------------------------------------------------
\* the recoverable conditions met while the request at position p ran
BadIndexAt(t, p) ==
    \E k \in 1..Len(log[t]) :
        log[t][k] = Event("print", p, <<Printed("absent")>>, "")

CapabilityFailedAt(t, p) ==
    \E k \in 1..Len(log[t]) :
        /\ log[t][k].op \in {"click", "type_into"}
        /\ log[t][k].pos = p
        /\ log[t][k].out = "false"

ProcessNotFoundAt(t, p) ==
    /\ Calls(t, "sleep", p) # << >>
    /\ \E k \in 1..Len(act_log[t]) :
          /\ act_log[t][k].pos = p
          /\ IsNone(act_log[t][k].result.current_app_pid)

RecoverableConditionAt(t, p) ==
    \/ BadIndexAt(t, p)
    \/ CapabilityFailedAt(t, p)
    \/ BothLaunchesFailed(t, p)
    \/ ProcessNotFoundAt(t, p)

(* C7: every recoverable runtime condition of a built-in action (bad index
   or capability call returning failure in click_element / input_text,
   launch failure or process-not-found in open_app) is returned as an
   ActionResult with error set, so that a multi_act sequence containing
   that action halts at it and dispatches no later request. *)
C7_RecoverableConditionsHalt ==
    \A t \in Tasks : \A k \in 1..Len(results[t]) :
        RecoverableConditionAt(t, k - 1)
        => /\ ~IsNone(results[t][k].error)
           /\ Len(results[t]) = k
           /\ Dispatched(t) = Positions(k)

-----------------------------------------------------------------------------
\* the calls on the capability provider
CapabilityOps == {"click", "type_into", "launchApplication_", "runningApplications"}

\* the call the task made last was a capability call that raised
CapabilityRaisedLast(t) ==
    /\ log[t] # << >>
    /\ log[t][Len(log[t])].op \in CapabilityOps
    /\ log[t][Len(log[t])].out \in {"ValueError", "Exception"}

(* C8: for every built-in action, an exception raised by a capability call
   inside the action is caught inside that action and turned into a
   returned ActionResult; it never propagates out of the action and so
   never makes multi_act end with an exception. *)
C8_CapabilityExceptionsCaught ==
    \A t \in Tasks :
        CapabilityRaisedLast(t) => pc[t] \notin {"except", "raised"}

-----------------------------------------------------------------------------
(* C9: multi_act always returns at least the results produced so far:
   however the run ends, including when the dispatch of request i raises,
   the results of requests 0..i-1 already produced are delivered to the
   caller. *)
C9_ResultsAlwaysDelivered ==
    \A t \in Tasks :
        outcome[t].kind # "pending"
        => \A k \in 1..Len(results[t]) :
              /\ ~IsNone(outcome[t].value)
              /\ Len(outcome[t].value[1]) >= k
              /\ outcome[t].value[1][k] = results[t][k]

(* C9 as amended: whenever multi_act ends by returning, the returned list
   is exactly the results produced so far, in order; when the dispatch of
   request i raises, multi_act ends with that exception and delivers no
   list, so the results of requests 0..i-1 are not delivered. *)
C9_ReturnsResultsOrRaises ==
    \A t \in Tasks :
        /\ (pc[t] \in {"returned", "raised"}) = (outcome[t].kind # "pending")
        /\ pc[t] = "returned"
              => /\ outcome[t].kind = "returned"
                 /\ outcome[t].value = Some(results[t])
                 /\ IsNone(outcome[t].exc)
                 /\ Len(act_log[t]) = Len(results[t])
                 /\ \A k \in 1..Len(results[t]) :
                       act_log[t][k] = [pos |-> k - 1, result |-> results[t][k]]
        /\ pc[t] = "raised"
              => /\ outcome[t].kind = "raised"
                 /\ IsNone(outcome[t].value)
                 /\ ~IsNone(outcome[t].exc)
                 /\ outcome[t].exc = exc[t]
                 /\ Len(act_log[t]) = Len(results[t])

\* the second request raised after the first had produced a result
C9_Witness ==
    /\ pc[1] = "raised"
    /\ Len(results[1]) = 1
    /\ Dispatched(1) = <<0, 1>>
    /\ IsNone(outcome[1].value)

-----------------------------------------------------------------------------
(* C10: within one multi_act call, actions run strictly one at a time in
   submitted order: the action for request i+1 does not start until the
   action for request i has completed and its result has been appended,
   including when request i suspends in open_app's delay. *)
C10_OneAtATime ==
    \A t \in Tasks :
        /\ Dispatched(t) = Positions(Len(Dispatched(t)))
        /\ Len(results[t]) <= Len(Dispatched(t))
        /\ Len(Dispatched(t)) <= Len(results[t]) + 1
        /\ Len(Dispatched(t)) = Len(results[t]) + 1 => i[t] = Len(results[t])
        /\ \A a \in 1..Len(log[t]) : \A b \in a..Len(log[t]) :
              log[t][a].pos <= log[t][b].pos
        /\ pc[t] = "act"
              => /\ Len(results[t]) = i[t]
                 /\ log[t][Len(log[t])] = Event("act", i[t], << >>, "")
        /\ pc[t] = "open_app_sleeping"
              => /\ Len(results[t]) = i[t]
                 /\ Len(Dispatched(t)) = i[t] + 1
                 /\ log[t][Len(log[t])] = Event("sleep", i[t], << >>, "")

\* the second request starts after the first one, an open_app that slept,
\* has completed and its result is in the list
C10_Witness ==
    /\ pc[1] = "act"
    /\ i[1] = 1
    /\ Calls(1, "sleep", 0) # << >>
    /\ Len(results[1]) = 1

-----------------------------------------------------------------------------
\* the registry invoked done for the request at position p
DoneInvokedAt(t, p) ==
    Calls(t, "execute_action", p)
        = <<Event("execute_action", p, <<"done">>, "invoked")>>

\* the text of the populated done entry of a request
DoneText(req) ==
    req[CHOOSE k \in 1..Len(req) :
            req[k].name = "done" /\ ~IsNone(req[k].params)].params[1].text

(* C11: done(text) always succeeds for every text: it returns an
   ActionResult with extracted_content equal to text, is_done = true and no
   error, so a done request at position k of a multi_act list is always the
   last request dispatched. *)
C11_DoneSucceedsAndIsLast ==
    \A t \in Tasks : \A p \in 0..(Len(actions[t]) - 1) :
        DoneInvokedAt(t, p)
        => /\ i[t] = p
           /\ pc[t] \in {"done", "normalize", "append", "return", "returned"}
           /\ IsNone(exc[t])
           /\ Dispatched(t) = Positions(p + 1)
           /\ \A k \in 1..Len(act_log[t]) :
                 act_log[t][k].pos = p
                 => act_log[t][k].result
                       = [extracted_content |-> Some(DoneText(actions[t][p + 1])),
                          error |-> None, is_done |-> TRUE,
                          current_app_pid |-> None]
           /\ Len(results[t]) > p
                 => /\ Len(results[t]) = p + 1
                    /\ results[t][p + 1] = act_log[t][p + 1].result

\* done("") at position 0 of a two-request list ended the run
C11_Witness ==
    /\ Len(actions[1]) = 2
    /\ DoneInvokedAt(1, 0)
    /\ DoneText(actions[1][1]) = << >>
    /\ ReturnedList(1, results[1])
    /\ Len(results[1]) = 1
    /\ results[1][1].is_done

-----------------------------------------------------------------------------
\* the app_name of the populated open_app entry of a request
OpenAppName(req) ==
    req[CHOOSE k \in 1..Len(req) :
            req[k].name = "open_app" /\ ~IsNone(req[k].params)].params[1].app_name

\* the positions in `running` of the applications that match app_name
Hits(running, app_name) ==
    {k \in 1..Len(running) : Matches(running[k], app_name)}

\* in the log of task t, no call of an operation in `later` made for
\* position p precedes one of an operation in `earlier`
InOrder(t, p, earlier, later) ==
    \A a \in 1..Len(log[t]) : \A b \in a..Len(log[t]) :
        ~(/\ log[t][a].pos = p /\ log[t][a].op \in later
          /\ log[t][b].pos = p /\ log[t][b].op \in earlier)

\* what open_app returned for position p agrees with the applications polled
PollOutcomeRight(res, running, app_name) ==
    IF Hits(running, app_name) = {}
    THEN ~IsNone(res.error) /\ IsNone(res.current_app_pid)
    ELSE /\ IsNone(res.error)
         /\ \E k \in Hits(running, app_name) :
               /\ \A m \in Hits(running, app_name) : k <= m
               /\ res.current_app_pid = Some(running[k].processIdentifier)

(* C12: open_app follows a fixed order: the launch with app_name verbatim
   first; the lower-cased launch only if the verbatim one failed (at most
   two attempts); only after an attempt succeeded does it wait and poll the
   running-process list exactly once, returning the matching process id in
   the result's metadata with no error if a process matches, and a result
   with error set if none matches. *)
C12_OpenAppOrder ==
    \A t \in Tasks : \A p \in 0..(Len(actions[t]) - 1) :
        LET launches == Calls(t, "launchApplication_", p)
            sleeps == Calls(t, "sleep", p)
            polls == Calls(t, "runningApplications", p)
            name == OpenAppName(actions[t][p + 1])
        IN  launches # << >>
            => /\ Len(launches) <= 2
               /\ launches[1].arg = name
               /\ Len(launches) = 2
                     => (launches[1].out = "false" /\ launches[2].arg = Lower(name))
               /\ Len(sleeps) <= 1
               /\ Len(polls) <= 1
               /\ sleeps # << >> => launches[Len(launches)].out = "true"
               /\ polls # << >> => sleeps # << >>
               /\ InOrder(t, p, {"launchApplication_"}, {"sleep", "runningApplications"})
               /\ InOrder(t, p, {"sleep"}, {"runningApplications"})
               /\ \A k \in 1..Len(act_log[t]) :
                     (act_log[t][k].pos = p /\ i[t] = p)
                     => /\ polls = << >> => BothLaunchesFailed(t, p)
                        /\ polls # << >>
                              => /\ polls[1].out = "returned"
                                 /\ PollOutcomeRight(act_log[t][k].result,
                                                     frame[t].running, name)

\* the lower-cased launch succeeded after the verbatim one failed, two
\* running applications match and the first one's process id is returned
C12_Witness ==
    /\ pc[1] = "append"
    /\ LaunchOutcomes(1, i[1]) = <<"false", "true">>
    /\ Len(Calls(1, "runningApplications", i[1])) = 1
    /\ Cardinality(Hits(frame[1].running, frame[1].params.app_name)) = 2
    /\ act_ret[1].current_app_pid = Some(101)
    /\ IsNone(act_ret[1].error)

-----------------------------------------------------------------------------
\* the set of the names in a sequence
Range(seq) == {seq[k] : k \in 1..Len(seq)}

(* C13: a default action whose name is in the exclude_actions list given to
   the Controller is silently not registered (construction does not fail),
   exclusion is decided once at registration time, and any later dispatch
   of that name fails with the unknown-action error rather than executing
   the action. *)
C13_ExcludedIsUnknown ==
    /\ registry \cap Range(DefaultActions) = Range(DefaultActions) \ exclude_actions
    /\ \A t \in Tasks : \A k \in 1..Len(log[t]) :
          (/\ log[t][k].op = "execute_action"
           /\ log[t][k].arg[1] \in exclude_actions)
          => /\ log[t][k].out = "UnknownActionError"
             /\ k = Len(log[t])
             /\ pc[t] \in {"except", "raised"}
             /\ exc[t] = Some("UnknownActionError")
             /\ \A j \in 1..Len(act_log[t]) : act_log[t][j].pos # log[t][k].pos

\* list_running_apps was excluded at construction; its dispatch ended the
\* run with the unknown-action error
C13_Witness ==
    /\ exclude_actions = {"list_running_apps"}
    /\ pc[1] = "raised"
    /\ outcome[1].exc = Some("UnknownActionError")
    /\ log[1][Len(log[1])].arg = <<"list_running_apps">>

-----------------------------------------------------------------------------
\* the action a capability call belongs to
CapabilityOwner(op) == IF op = "click" THEN "click_element" ELSE "input_text"

\* the index given in the populated entry `name` of a request
IndexOf(req, name) ==
    req[CHOOSE k \in 1..Len(req) :
            req[k].name = name /\ ~IsNone(req[k].params)].params[1].index

\* the actions registered without requires_mac_builder
ContextFree == {"done", "open_app", "list_running_apps"}

(* C14: no sequence of act / multi_act calls changes the context source:
   the element cache holds the same index-to-element mapping after any
   dispatch as before it, the built-in actions only test membership of an
   index and read the element at that index, and done, open_app and
   list_running_apps never read the context at all. *)
C14_ContextIsReadOnly ==
    /\ element_cache = ElementCache
    /\ \A t \in Tasks : \A k \in 1..Len(log[t]) :
          LET e == log[t][k]
          IN  /\ e.op \in {"click", "type_into"}
                 => /\ Calls(t, "execute_action", e.pos)
                          = <<Event("execute_action", e.pos,
                                    <<CapabilityOwner(e.op)>>, "invoked")>>
                    /\ has_builder[t]
                    /\ LET index == IndexOf(actions[t][e.pos + 1],
                                            CapabilityOwner(e.op))
                       IN  /\ index \in DOMAIN ElementCache
                           /\ e.arg = ElementCache[index]
              /\ (e.op = "execute_action" /\ e.arg[1] \in ContextFree)
                 => e.out # "MissingContextError"

\* two clicks on the element at index 0 in one run: the second one found
\* the element the first one found
C14_Witness ==
    /\ pc[1] = "returned"
    /\ Len(SelectSeq(log[1], LAMBDA e : e.op = "click"
                                        /\ e.arg = ElementCache[0])) = 2
    /\ element_cache = ElementCache

-----------------------------------------------------------------------------
\* act returns `result` in this step
ActReturnsNow(t, result) ==
    /\ pc'[t] = "append"
    /\ act_ret'[t] = result
    /\ act_log'[t] = Append(act_log[t], [pos |-> i[t], result |-> result])
    /\ exc'[t] = exc[t]

\* act fails with `e` in this step, returning nothing
ActFailsNow(t, e) ==
    /\ pc'[t] = "except"
    /\ exc'[t] = Some(e)
    /\ act_log'[t] = act_log[t]

\* the step of act that follows the return of execute_action
NormalizeStep(t) ==
    CASE raw[t].type = "str" ->
            ActReturnsNow(t, [extracted_content |-> Some(raw[t].str),
                              error |-> None, is_done |-> FALSE,
                              current_app_pid |-> None])
      [] raw[t].type = "ActionResult" -> ActReturnsNow(t, raw[t].ar)
      [] raw[t].type = "NoneType" ->
            ActReturnsNow(t, [extracted_content |-> None, error |-> None,
                              is_done |-> FALSE, current_app_pid |-> None])
      [] OTHER -> ActFailsNow(t, "ValueError")

(* C15: Controller.act normalizes the value returned by the executed
   action: a string s becomes ActionResult(extracted_content = s), an
   ActionResult is returned unchanged, nothing/None becomes an empty
   ActionResult, and any other return shape makes act fail with an
   invalid-result-type error instead of returning a result. *)
C15_Normalization ==
    [][\A t \in Tasks :
          (pc[t] = "normalize" /\ pc'[t] # "normalize") => NormalizeStep(t)]_vars

\* act has just wrapped the text a registered action returned
C15_Witness ==
    /\ pc[1] = "append"
    /\ frame[1].action_name = CustomAction
    /\ log[1][Len(log[1])] = Event("execute_action", i[1], <<CustomAction>>, "invoked")
    /\ raw[1] = PyStr(<<"text">>)
    /\ act_ret[1] = ActionResult(Some(<<"text">>), None, FALSE, None)

-----------------------------------------------------------------------------
\* entry k of the request is populated and every entry before it is None
FirstPopulatedEntry(req, k) ==
    /\ k \in 1..Len(req)
    /\ ~IsNone(req[k].params)
    /\ \A m \in 1..(k - 1) : IsNone(req[m].params)

\* act has finished with the request at position p
ActFinishedAt(t, p) ==
    \/ \E k \in 1..Len(act_log[t]) : act_log[t][k].pos = p
    \/ (i[t] = p /\ pc[t] \in {"except", "raised"})

(* C16: Controller.act executes at most one action per request: it scans
   the request's entries in a fixed order, skips entries whose payload is
   None, routes the first populated entry to the registry and returns its
   result immediately; for a request with several populated entries the
   later ones are never executed and the same request always selects the
   same entry. *)
C16_AtMostOneActionPerRequest ==
    \A t \in Tasks : \A p \in 0..(Len(actions[t]) - 1) :
        LET req == actions[t][p + 1]
            routed == Calls(t, "execute_action", p)
        IN  /\ Len(routed) <= 1
            /\ \A k \in 1..Len(req) :
                  FirstPopulatedEntry(req, k)
                  => /\ routed # << >> => routed[1].arg = <<req[k].name>>
                     /\ ActFinishedAt(t, p) => routed # << >>
            /\ NoPopulatedEntry(req) => routed = << >>

\* a request with click_element and done both populated: only click_element
\* ran, and the run went on to the end of the list without a done result
C16_Witness ==
    /\ pc[1] = "returned"
    /\ Len(actions[1]) = 1
    /\ Len(actions[1][1]) = 2
    /\ ~IsNone(actions[1][1][1].params)
    /\ ~IsNone(actions[1][1][2].params)
    /\ Calls(1, "execute_action", 0)
          = <<Event("execute_action", 0, <<actions[1][1][1].name>>, "invoked")>>
    /\ Len(results[1]) = 1
    /\ ~results[1][1].is_done

-----------------------------------------------------------------------------
\* the failures of lookup, validation and context injection
DispatchFailures ==
    {"UnknownActionError", "InvalidParametersError", "MissingContextError"}

\* act is raising, or has raised, for the request at position i
ActRaising(t) == pc[t] \in {"except", "raised"}

\* a registered action has returned a value that is neither a str, an
\* ActionResult nor None, and act has looked at it
InvalidResultSeen(t) ==
    /\ frame[t].action_name = CustomAction
    /\ raw[t].type = "int"
    /\ pc[t] # "normalize"

(* C17: a failure raised during lookup, validation or execution of an
   action (unknown action name, invalid parameters, missing context,
   invalid result type) is not swallowed: Controller.act re-raises it to
   its caller without returning an ActionResult, and a multi_act call in
   which request i raises ends with that same exception and dispatches no
   request after i. *)
C17_FailuresPropagate ==
    \A t \in Tasks :
        /\ \A k \in 1..Len(log[t]) :
              (log[t][k].op = "execute_action" /\ log[t][k].out \in DispatchFailures)
              => /\ k = Len(log[t])
                 /\ log[t][k].pos = i[t]
                 /\ ActRaising(t)
                 /\ exc[t] = Some(log[t][k].out)
        /\ InvalidResultSeen(t) => (ActRaising(t) /\ exc[t] = Some("ValueError"))
        /\ ActRaising(t)
           => /\ ~IsNone(exc[t])
              /\ \A k \in 1..Len(act_log[t]) : act_log[t][k].pos < i[t]
              /\ Len(results[t]) = i[t]
              /\ Dispatched(t) = Positions(i[t] + 1)
        /\ pc[t] = "raised" => outcome[t] = [kind |-> "raised", value |-> None,
                                             exc |-> exc[t]]
        /\ pc[t] = "except" => outcome[t].kind = "pending"

\* the first of two requests returned a value of an invalid type: the call
\* ended with the ValueError and the second request was never dispatched
C17_Witness ==
    /\ pc[1] = "raised"
    /\ Len(actions[1]) = 2
    /\ i[1] = 0
    /\ InvalidResultSeen(1)
    /\ outcome[1].exc = Some("ValueError")
    /\ Dispatched(1) = <<0>>

-----------------------------------------------------------------------------
\* the registry has invoked an action for task t and the action has not
\* returned or raised yet
InFlight(t) ==
    pc[t] \in {"done", "input_text", "click_element", "open_app",
               "open_app_lower", "open_app_launched", "open_app_sleeping",
               "list_running_apps", CustomAction}

(* C18: when two multi_act (or act) calls are started concurrently on the
   same Controller as cooperative tasks, the Controller never has two
   actions in flight at the same time: an action of one call does not start
   while an action of the other call is suspended at an await point (e.g.
   open_app's post-launch delay) and not yet finished. *)
C18_NeverTwoInFlight ==
    \A t, u \in Tasks : (InFlight(t) /\ InFlight(u)) => t = u

-----------------------------------------------------------------------------
\* result k of the list is the one act returned for request k (0-based k - 1),
\* the list is no longer than the input, and the requests handed to act are
\* 0, 1, 2, ... without a gap or a repetition
PrefixImage(t) ==
    /\ Len(results[t]) <= Len(actions[t])
    /\ \A k \in 1..Len(results[t]) :
          /\ k <= Len(act_log[t])
          /\ act_log[t][k] = [pos |-> k - 1, result |-> results[t][k]]
    /\ \E n \in {Len(results[t]), Len(results[t]) + 1} :
          Dispatched(t) = Positions(n)
    /\ Len(Dispatched(t)) <= Len(actions[t])

\* every result but the last one is non-terminal
OnlyLastTerminal(t) ==
    \A k \in 1..(Len(results[t]) - 1) : ~Terminal(results[t][k])

(* C19: invariant of every state of a multi_act run: the results list is a
   prefix image of the input (result i was produced by request i, length of
   results <= length of actions, no request is dispatched twice or
   skipped), and every result except possibly the last one is non-terminal
   (is_done false and no error); the run terminates after at most
   len(actions) dispatches provided each action terminates. *)
C19_ResultsPrefixInvariant ==
    \A t \in Tasks : PrefixImage(t) /\ OnlyLastTerminal(t)

-----------------------------------------------------------------------------
\* error set and is_done = true at once
ErrorAndDone(r) == ~IsNone(r.error) /\ r.is_done

\* what a result of the built-in action `name` may look like
BuiltInResultOk(name, r) ==
    /\ ~ErrorAndDone(r)
    /\ r.is_done => name = "done"
    /\ name = "done" => (r.is_done /\ IsNone(r.error))
    /\ (name = "open_app" /\ ~IsNone(r.error)) => ~r.is_done

\* the name of the action the registry invoked for the request at position
\* p, "" when it invoked none
InvokedAt(t, p) ==
    LET routed == Calls(t, "execute_action", p)
    IN  IF routed # << >> /\ routed[1].out = "invoked"
        THEN routed[1].arg[1]
        ELSE ""

(* C20: no built-in action ever returns an ActionResult that has both
   error set and is_done = true: only done sets is_done and it never sets
   error, and every result of open_app with error set has is_done =
   false. *)
C20_NoErrorWithDone ==
    \A t \in Tasks :
        /\ (pc[t] = "normalize" /\ frame[t].action_name \in Range(DefaultActions))
           => /\ raw[t].type = "ActionResult"
              /\ BuiltInResultOk(frame[t].action_name, raw[t].ar)
        /\ \A k \in 1..Len(act_log[t]) :
              InvokedAt(t, act_log[t][k].pos) \in Range(DefaultActions)
              => BuiltInResultOk(InvokedAt(t, act_log[t][k].pos),
                                 act_log[t][k].result)

\* open_app has just returned a result with error set after a poll that
\* found no matching process
C20_Witness ==
    /\ pc[1] = "normalize"
    /\ frame[1].action_name = "open_app"
    /\ Calls(1, "runningApplications", i[1]) # << >>
    /\ ~IsNone(raw[1].ar.error)
    /\ ~raw[1].ar.is_done

====
